---- MODULE Spec2Model ----
(***************************************************************************)
(* Sequence reconstruction of JumbledFramesReconstruction:                 *)
(*   src/reconstruct_sequence.py  compute_similarity_pair,                 *)
(*                                compute_similarity_matrix,               *)
(*                                greedy_nearest_neighbor,                 *)
(*                                reconstruct_sequence                     *)
(*   src/frame_similarity.py      frame_similarity (method dispatch),      *)
(*                                compute_mse, load_frame                  *)
(*   src/optical_flow_similarity.py  optical_flow_similarity,              *)
(*                                compare_all_pairs                        *)
(*   main.py                      main (the command-line pipeline)         *)
(*   src/video_builder.py         create_video                             *)
(*                                                                         *)
(* Scores are floats in the program.  The model keeps them as fixed-point  *)
(* integers in tenths (1.0 is 10), which keeps their order and equality,   *)
(* the only things the matrix builder and the greedy walk use.  -inf is    *)
(* the bottom element NegInf of that order.  NaN scores are outside the    *)
(* model.                                                                  *)
(*                                                                         *)
(* Indices are 0-based as in the program: a vector of length n is a        *)
(* function on 0..n-1, a matrix a function on (0..n-1) \X (0..n-1).        *)
(* The Python list `sequence` is a TLA+ sequence (positions 1..Len).       *)
(* An Optional[int] is a sequence of length at most one: << >> is None.    *)
(***************************************************************************)
EXTENDS Integers, Sequences, FiniteSets, TLC

(***************************************************************************)
(* Bounds of the model.                                                    *)
(***************************************************************************)
\* largest frame count whose inputs are enumerated exhaustively
MaxN ==
    3

\* size of the worker pool (max_workers; None means the machine's CPU count)
MaxWorkers ==
    2

\* how many times greedy_nearest_neighbor is called on one matrix
MaxRuns ==
    2

\* magnitude of the most negative finite score of the model, in tenths
MaxMagnitude ==
    40

\* pixels of a model frame, and the largest value of a pixel
FramePixels ==
    2

MaxPixel ==
    2

(***************************************************************************)
(* Program constants.                                                      *)
(***************************************************************************)
\* np.fill_diagonal(similarity_matrix, 1.0)
DiagonalValue ==
    10

\* return (idx1, idx2, 0.0) when a frame cannot be loaded
UnreadableScore ==
    0

\* np.zeros((n_frames, n_frames))
ZeroCell ==
    0

\* use_multiprocessing and total_comparisons > 100
ParallelThreshold ==
    100

\* -np.inf, the mask value: below every finite score
NegInf ==
    -(MaxMagnitude + 1)

None ==
    << >>

Some(x) ==
    << x >>

(***************************************************************************)
(* Python / numpy primitives used by the code.                             *)
(***************************************************************************)
\* range(n)
Range(n) ==
    0 .. (n - 1)

\* variant: the upper end of the index range taken as legal
PyIndexable_UpperInclusive(i, n) ==
    (-n <= i) /\ (i <= n)

\* a[i] is legal on a length-n array or list iff -n <= i < n (else IndexError)
PyIndexable(i, n) ==
    (-n <= i) /\ (i < n)

\* the position a[i] denotes: negative indices count from the end
PyIndex(i, n) ==
    IF i < 0 THEN i + n ELSE i

\* np.argmax: index of the first occurrence of the maximum
ArgMax(row, n) ==
    CHOOSE i \in Range(n) :
        /\ \A j \in Range(n) : row[j] <= row[i]
        /\ \A j \in Range(n) : j < i => row[j] < row[i]

\* variant: the used entries are not masked
MaskedRow_Unmasked(M, cur, u, n) ==
    [j \in Range(n) |-> M[<<PyIndex(cur, n), j>>]]

\* similarities = similarity_matrix[current_idx].copy(); similarities[used] = -np.inf
MaskedRow(M, cur, u, n) ==
    [j \in Range(n) |-> IF u[j] THEN NegInf ELSE M[<<PyIndex(cur, n), j>>]]

\* variant: the inner loop starts one column late
RowPairs_SkipsNeighbour(i, n) ==
    [k \in 1 .. (n - 2 - i) |-> <<i, i + 1 + k>>]

\* the inner loop: for j in range(i + 1, n): pairs.append((.., i, j, ..))
RowPairs(i, n) ==
    [k \in 1 .. (n - 1 - i) |-> <<i, i + k>>]

\* the outer loop: for i in range(n), from row i on
RECURSIVE PairsFrom(_, _)
PairsFrom(i, n) ==
    IF i >= n THEN << >> ELSE RowPairs(i, n) \o PairsFrom(i + 1, n)

\* pairs: the upper triangle in the order of the two nested loops (1-based list)
Pairs(n) ==
    PairsFrom(0, n)

\* total_comparisons = len(pairs)
TotalComparisons(n) ==
    Len(Pairs(n))

\* N(N-1)/2, the number of unordered pairs of N frames
NPairs(n) ==
    (n * (n - 1)) \div 2

(***************************************************************************)
(* frame_similarity: the method dispatch.  The five names below are the    *)
(* branches of the if/elif chain; every other name raises ValueError.      *)
(* 'opticalflow' is the name main.py passes.                               *)
(***************************************************************************)
KnownMethods ==
    {"histogram", "mse", "structural", "features", "combined"}

Methods ==
    KnownMethods \cup {"opticalflow"}

\* Scores a method can return for two readable frames (sampled, tenths):
\* correlations lie in [-1, 1], negative MSE in (-inf, 0], the ORB match
\* ratio in [0, 1], combined = 0.7*histogram + 0.3*structural in [-1, 1].
SampleScores(m) ==
    CASE m = "histogram"  -> {-10, 10}
      [] m = "mse"        -> {-MaxMagnitude, 0}
      [] m = "structural" -> {0, 10}
      [] m = "features"   -> {0, 5}
      [] m = "combined"   -> {3, 10}
      [] OTHER            -> {0}

(***************************************************************************)
(* The metrics on pixel data.  A frame, as cv2.imread decodes it, is an    *)
(* array of pixel values; the model flattens it to a sequence.             *)
(***************************************************************************)
Frames ==
    [1 .. FramePixels -> 0 .. MaxPixel]

\* sum over the first k pixels of (frame1 - frame2) ** 2
RECURSIVE SumSquaredDiff(_, _, _)
SumSquaredDiff(frame1, frame2, k) ==
    IF k = 0 THEN 0
    ELSE (frame1[k] - frame2[k]) * (frame1[k] - frame2[k])
         + SumSquaredDiff(frame1, frame2, k - 1)

\* compute_mse on frames of one shape: -np.mean((frame1 - frame2) ** 2), in tenths
ComputeMse(frame1, frame2) ==
    -((10 * SumSquaredDiff(frame1, frame2, Len(frame1))) \div Len(frame1))

SetMax(S) ==
    CHOOSE x \in S : \A y \in S : y <= x

\* The largest score a metric returns, the one of identical frames: "1 is
\* identical" for the histogram correlation, and likewise 1 for the edge
\* correlation, the match ratio and the 0.7/0.3 combination; "0 =
\* identical" for the negative MSE.
MetricMaximum(m) ==
    IF m = "mse" THEN SetMax({ComputeMse(f, g) : f \in Frames, g \in Frames})
    ELSE 10

\* frames of every size up to FramePixels: two frames can differ in shape
AllFrames ==
    UNION {[1 .. k -> 0 .. MaxPixel] : k \in 1 .. FramePixels}

\* frame.shape
Shape(frame) ==
    Len(frame)

\* cv2.resize(frame, size): an array of the requested size, each of its
\* pixels sampled from the source pixel at the same relative position
Resize(frame, size) ==
    [k \in 1 .. size |-> frame[(((k - 1) * Len(frame)) \div size) + 1]]

\* if frame1.shape != frame2.shape: frame2 = cv2.resize(frame2, frame1's shape)
MatchShape(a, b) ==
    IF Shape(a) # Shape(b) THEN Resize(b, Shape(a)) ELSE b

\* The arrays each metric evaluates, per core evaluation it makes:
\* compute_mse and compute_structural_similarity resample the second frame
\* first, compute_histogram_similarity, compute_feature_similarity and
\* optical_flow_similarity hand the two frames on as they are; 'combined'
\* is the histogram evaluation and the structural one.
Operands(m, a, b) ==
    CASE m = "mse"        -> {<<a, MatchShape(a, b)>>}
      [] m = "structural" -> {<<a, MatchShape(a, b)>>}
      [] m = "combined"   -> {<<a, b>>, <<a, MatchShape(a, b)>>}
      [] OTHER            -> {<<a, b>>}

\* cv2.calcOpticalFlowFarneback(gray1, gray2, ...) requires two images of
\* one size and raises cv2.error otherwise; the histograms, the keypoint
\* descriptors and the (resampled) arrays of the other metrics have no such
\* requirement
MetricRaises(m, a, b) ==
    m = "opticalflow" /\ \E o \in Operands(m, a, b) : Shape(o[1]) # Shape(o[2])

\* the functions that compare two frames: the five methods of
\* frame_similarity and optical_flow_similarity
MetricFunctions ==
    KnownMethods \cup {"opticalflow"}

(***************************************************************************)
(* Inputs.                                                                 *)
(***************************************************************************)
\* the frame counts on either side of the multiprocessing threshold
FirstParallelN ==
    CHOOSE n \in 1 .. (ParallelThreshold + 2) :
        NPairs(n) > ParallelThreshold /\ NPairs(n - 1) <= ParallelThreshold

BoundaryNs ==
    {FirstParallelN - 1, FirstParallelN}

\* a set of five frames of which frame 2 cannot be loaded
UnreadableFrameSet ==
    <<TRUE, TRUE, FALSE, TRUE, TRUE>>

UnreadableFrameN ==
    Len(UnreadableFrameSet)

UnreadableFrameReadable ==
    [i \in Range(UnreadableFrameN) |-> UnreadableFrameSet[i + 1]]

\* the pairs whose two frames can both be loaded
ReadablePairs(n, rd) ==
    {p \in Range(n) \X Range(n) : p[1] < p[2] /\ rd[p[1]] /\ rd[p[2]]}

\* What frame_similarity returns on each pair of the frames on disk.  The
\* frames are read-only, so this is one fixed table per run, indexed by the
\* pair (i, j), i < j, in the argument order the builder uses.  Small frame
\* sets are enumerated; the large sets at the multiprocessing threshold use
\* one fixed pattern (frames closer in index score higher).
PatternScore(m, p) ==
    IF m = "mse" THEN -(((p[2] - p[1]) % 3) * 5)
    ELSE DiagonalValue - ((p[2] - p[1]) % 3) * 5

ScoreTables(n, m, rd) ==
    IF n <= MaxN \/ n = UnreadableFrameN
    THEN [ReadablePairs(n, rd) -> SampleScores(m)]
    ELSE {[p \in ReadablePairs(n, rd) |-> PatternScore(m, p)]}

\* start_idx arguments: None, every legal index, and indices out of range
StartArgs(n) ==
    {None} \cup {Some(s) : s \in (-(n + 1)) .. n}

\* off-diagonal scores of the matrices handed directly to the greedy walk
GreedyScores ==
    {NegInf, 3, DiagonalValue}

\* the cells above the diagonal
UpperPairs(n) ==
    {p \in Range(n) \X Range(n) : p[1] < p[2]}

\* symmetric n x n matrices with DiagonalValue on the diagonal
SimilarityMatrices(n) ==
    {[p \in Range(n) \X Range(n) |->
        IF p[1] = p[2] THEN DiagonalValue
        ELSE IF p[1] < p[2] THEN t[p] ELSE t[<<p[2], p[1]>>]] :
     t \in [UpperPairs(n) -> GreedyScores]}

\* M = [[1,.9,.1,.2],[.9,1,.3,.1],[.1,.3,1,.8],[.2,.1,.8,1]]
GoldenRows ==
    << <<10, 9, 1, 2>>, <<9, 10, 3, 1>>, <<1, 3, 10, 8>>, <<2, 1, 8, 10>> >>

GoldenN ==
    Len(GoldenRows)

GoldenMatrix ==
    [p \in Range(GoldenN) \X Range(GoldenN) |-> GoldenRows[p[1] + 1][p[2] + 1]]

(***************************************************************************)
(* State.                                                                  *)
(***************************************************************************)
VARIABLES
    pc,                  \* "idle", "seq_build", "par_build", "walk", "returned", "raised";
                         \* "metric_returned", "metric_raised" (a metric called directly);
                         \* "flow_build", "flow_returned" (compare_all_pairs)
    entry,               \* the function the caller invoked
    n_frames,            \* len(frame_paths) / similarity_matrix.shape[0]
    folder_exists,       \* os.path.exists(frames_folder)
    readable,            \* readable[i]: load_frame(frame_paths[i]) is not None
    method,
    use_multiprocessing,
    start_idx,           \* Optional[int]
    scores,              \* frame_similarity on the frames of this run
    pool_size,           \* workers of the ProcessPoolExecutor (0: no pool)
    similarity_matrix,
    pairs,               \* the work list: (i, j) of every pair to compare
    done,                \* indices (into pairs) of the pairs whose result is written
    pair_calls,          \* calls of compute_similarity_pair
    metric_calls,        \* calls of frame_similarity
    cell_writes,         \* cell_writes[c]: assignments to cell c by the two loops
    used,
    sequence,
    current_idx,
    steps,               \* iterations of the while loop (pbar.update(1))
    error,               \* the exception that ended the call, or "none"
    ordered_frame_paths, \* the frame (by position in frame_paths) at each place
    runs,                \* calls of greedy_nearest_neighbor on this matrix
    prev,                \* outcome of the previous call on this matrix
    main_pc,             \* main.py: "none" (not a run of main), "reconstruction",
                         \* "validated", "video_done", "exited"
    stages,              \* main.py: the pipeline stages entered so far
    exit_status,         \* main.py: the status of sys.exit, None while running
    validator_arg,       \* main.py: the value handed to validate_reconstruction
    validation,          \* main.py: what validate_reconstruction returned
    run_env,             \* main.py: the files and devices the run finds (None: no run)
    frame1,              \* a direct call of a metric: its first frame (None: no call)
    frame2,              \* its second frame
    comparison           \* how that call ended

inputs ==
    <<entry, n_frames, folder_exists, readable, method, use_multiprocessing,
      start_idx, scores, pool_size>>

build ==
    <<similarity_matrix, pairs, done, pair_calls, metric_calls, cell_writes>>

walk ==
    <<used, sequence, current_idx, steps>>

history ==
    <<runs, prev>>

mainvars ==
    <<main_pc, stages, exit_status, validator_arg, validation, run_env>>

metricvars ==
    <<frame1, frame2, comparison>>

\* the state of the sequence reconstruction and of main.py
pipelinevars ==
    <<pc, inputs, build, walk, error, ordered_frame_paths, history, mainvars>>

vars ==
    <<pipelinevars, metricvars>>

Init ==
    /\ pc = "idle"
    /\ entry = "none"
    /\ n_frames = 0
    /\ folder_exists = FALSE
    /\ readable = << >>
    /\ method = "combined"
    /\ use_multiprocessing = TRUE
    /\ start_idx = None
    /\ scores = << >>
    /\ pool_size = 0
    /\ similarity_matrix = << >>
    /\ pairs = << >>
    /\ done = {}
    /\ pair_calls = 0
    /\ metric_calls = 0
    /\ cell_writes = << >>
    /\ used = << >>
    /\ sequence = << >>
    /\ current_idx = 0
    /\ steps = 0
    /\ error = "none"
    /\ ordered_frame_paths = << >>
    /\ runs = 0
    /\ prev = << >>
    /\ main_pc = "none"
    /\ stages = << >>
    /\ exit_status = None
    /\ validator_arg = None
    /\ validation = None
    /\ run_env = None
    /\ frame1 = None
    /\ frame2 = None
    /\ comparison = None

(***************************************************************************)
(* compute_similarity_pair and the two loops of compute_similarity_matrix. *)
(***************************************************************************)
\* variant: no test for None, the metric is handed the missing frame
PairRaises_NoNoneTest(p) ==
    ~(readable[p[1]] /\ readable[p[2]]) \/ method \notin KnownMethods

\* compute_similarity_pair raises iff both frames load and the dispatch of
\* frame_similarity falls through to its else branch
PairRaises(p) ==
    readable[p[1]] /\ readable[p[2]] /\ method \notin KnownMethods

\* the similarity compute_similarity_pair returns for pair p
PairSimilarity(p) ==
    IF ~(readable[p[1]] /\ readable[p[2]]) THEN UnreadableScore ELSE scores[p]

\* variant: the second assignment hits the diagonal cell [j, j]
CellsWritten_Diagonal(p) ==
    << <<p[1], p[2]>>, <<p[2], p[2]>> >>

\* the cells the two assignments of one result touch, in program order:
\* similarity_matrix[i, j] = ...; similarity_matrix[j, i] = ...
CellsWritten(p) ==
    << <<p[1], p[2]>>, <<p[2], p[1]>> >>

\* variant: the mirrored cell is not written
WriteResult_UpperOnly(M, p, similarity) ==
    [M EXCEPT ![<<p[1], p[2]>>] = similarity]

\* similarity_matrix[i, j] = similarity; similarity_matrix[j, i] = similarity
WriteResult(M, p, similarity) ==
    [M EXCEPT ![CellsWritten(p)[1]] = similarity, ![CellsWritten(p)[2]] = similarity]

\* the two assignments counted per cell
CountWrites(W, cells) ==
    [W EXCEPT ![cells[1]] = @ + 1, ![cells[2]] = @ + 1]

\* np.zeros((n, n)) followed by np.fill_diagonal(similarity_matrix, 1.0)
InitialMatrix(n) ==
    [p \in Range(n) \X Range(n) |-> IF p[1] = p[2] THEN DiagonalValue ELSE ZeroCell]

\* variant: the pool is used whatever use_multiprocessing says
UsesPool_IgnoresFlag(mp, total_comparisons) ==
    total_comparisons > ParallelThreshold

\* use_multiprocessing and total_comparisons > 100
UsesPool(mp, total_comparisons) ==
    mp /\ total_comparisons > ParallelThreshold

\* min(a, b)
Min(a, b) ==
    IF a <= b THEN a ELSE b

\* Futures a pool of w workers can have finished next.  Tasks are started in
\* submission order, a new one as soon as a worker is free: once the set d
\* of tasks is finished, the first |d| + w tasks have been started, and the
\* unfinished ones among them are the ones running.
Completable(total, w, d) ==
    {k \in 1 .. Min(total, Cardinality(d) + w) : k \notin d}

\* variant: the result is filed under the pair whose turn it is by arrival
ResultIndices_ByArrival(k, d) ==
    pairs[Cardinality(d) + 1]

\* idx1, idx2 of the result of task k: compute_similarity_pair returns the
\* indices it was given, so they do not depend on the tasks d finished before
ResultIndices(k, d) ==
    pairs[k]

\* one pair handled: the call of compute_similarity_pair and, unless it
\* raised, the two writes and pbar.update(1)
HandlePair(k) ==
    LET p == pairs[k] IN
    /\ pair_calls' = pair_calls + 1
    /\ metric_calls' = IF readable[p[1]] /\ readable[p[2]]
                       THEN metric_calls + 1 ELSE metric_calls
    /\ IF PairRaises(p)
       THEN /\ pc' = "raised"
            /\ error' = "ValueError"
            /\ UNCHANGED <<similarity_matrix, done, cell_writes>>
       ELSE /\ similarity_matrix' = WriteResult(similarity_matrix,
                                               ResultIndices(k, done), PairSimilarity(p))
            /\ cell_writes' = CountWrites(cell_writes,
                                          CellsWritten(ResultIndices(k, done)))
            /\ done' = done \cup {k}
            /\ UNCHANGED <<pc, error>>
    /\ UNCHANGED <<inputs, pairs, walk, ordered_frame_paths, history, mainvars, metricvars>>

\* The sequential loop, for pair in pairs, assigns in list order, so a cell
\* ends with the value of the last iteration that assigns it, or with its
\* initial value when no iteration does.
SequentialWriters(c) ==
    {k \in 1 .. Len(pairs) :
        \E x \in 1 .. 2 : CellsWritten(ResultIndices(k, 1 .. (k - 1)))[x] = c}

SequentialCell(c) ==
    LET writers == SequentialWriters(c)
    IN IF writers = {}
       THEN (IF c[1] = c[2] THEN DiagonalValue ELSE ZeroCell)
       ELSE PairSimilarity(pairs[SetMax(writers)])

\* the matrix the sequential path returns for the frames of this run
SequentialMatrix ==
    [c \in Range(n_frames) \X Range(n_frames) |-> SequentialCell(c)]

\* sequential path: for pair in pairs
SeqPair ==
    /\ pc = "seq_build"
    /\ Cardinality(done) < Len(pairs)
    /\ HandlePair(Cardinality(done) + 1)

\* parallel path: for future in as_completed(futures)
ParPair ==
    /\ pc = "par_build"
    /\ \E k \in Completable(Len(pairs), pool_size, done) : HandlePair(k)

(***************************************************************************)
(* greedy_nearest_neighbor.                                                *)
(***************************************************************************)
\* variant: a random start whose upper end is inclusive (random.randint)
StartChoices_Inclusive(s, n) ==
    IF s = None THEN 0 .. n ELSE {s[1]}

\* variant: the start is random even when start_idx is given
StartChoices_IgnoresArgument(s, n) ==
    Range(n)

\* the values current_idx can take at "Choose starting frame":
\* np.random.randint(0, n_frames) when start_idx is None, else start_idx
StartChoices(s, n) ==
    IF s = None THEN Range(n) ELSE {s[1]}

\* Lines up to the progress bar: choose the start, append it, mark it used.
\* np.random.randint(0, 0) raises ValueError; used[current_idx] raises
\* IndexError when current_idx is not an index of an array of length n.
GreedyEnter(M, n, s) ==
    /\ steps' = 0
    /\ IF s = None /\ n = 0
       THEN /\ pc' = "raised"
            /\ error' = "ValueError"
            /\ used' = [i \in Range(n) |-> FALSE]
            /\ sequence' = << >>
            /\ current_idx' = 0
       ELSE \E c \in StartChoices(s, n) :
            /\ current_idx' = c
            /\ sequence' = << c >>
            /\ IF PyIndexable(c, n)
               THEN /\ used' = [i \in Range(n) |-> i = PyIndex(c, n)]
                    /\ pc' = "walk"
                    /\ error' = "none"
               ELSE /\ used' = [i \in Range(n) |-> FALSE]
                    /\ pc' = "raised"
                    /\ error' = "IndexError"

\* next_idx = np.argmax(similarities) on the masked copy of the current row
NextIdx(M, cur, u, n) ==
    ArgMax(MaskedRow(M, cur, u, n), n)

\* variant: one iteration too many
LoopContinues_Inclusive(seq, n) ==
    Len(seq) <= n

\* while len(sequence) < n_frames
LoopContinues(seq, n) ==
    Len(seq) < n

\* variant: the row is masked in place, without .copy()
MatrixAfterMasking_InPlace(M, cur, u, n) ==
    [c \in DOMAIN M |-> IF c[1] = PyIndex(cur, n) /\ u[c[2]] THEN NegInf ELSE M[c]]

\* the matrix after similarities[used] = -np.inf: similarities is a copy of
\* the row (similarity_matrix[current_idx].copy()), the matrix keeps its values
MatrixAfterMasking(M, cur, u, n) ==
    M

\* variant: the new index is put in front
SequenceAfterStep_Prepend(seq, next_idx) ==
    << next_idx >> \o seq

\* sequence.append(next_idx)
SequenceAfterStep(seq, next_idx) ==
    Append(seq, next_idx)

\* one iteration of the while loop
GreedyStep ==
    /\ pc = "walk"
    /\ LoopContinues(sequence, n_frames)
    /\ LET next_idx == NextIdx(similarity_matrix, current_idx, used, n_frames) IN
       /\ sequence' = SequenceAfterStep(sequence, next_idx)
       /\ used' = [used EXCEPT ![next_idx] = TRUE]
       /\ current_idx' = next_idx
    /\ similarity_matrix' =
          MatrixAfterMasking(similarity_matrix, current_idx, used, n_frames)
    /\ steps' = steps + 1
    /\ UNCHANGED <<pc, inputs, pairs, done, pair_calls, metric_calls, cell_writes,
                   error, ordered_frame_paths, history, mainvars, metricvars>>

\* ordered_frame_paths = [frame_paths[idx] for idx in ordered_indices]
OrderedPaths(seq, n) ==
    [k \in 1 .. Len(seq) |-> PyIndex(seq[k], n)]

\* the loop condition fails: return sequence; reconstruct_sequence then maps
\* the indices to paths and returns
GreedyReturn ==
    /\ pc = "walk"
    /\ ~LoopContinues(sequence, n_frames)
    /\ pc' = "returned"
    /\ ordered_frame_paths' =
          IF entry = "reconstruct_sequence"
          THEN OrderedPaths(sequence, n_frames) ELSE ordered_frame_paths
    /\ UNCHANGED <<inputs, build, walk, error, history, mainvars, metricvars>>

(***************************************************************************)
(* Calls.                                                                  *)
(***************************************************************************)
\* a caller invokes greedy_nearest_neighbor(similarity_matrix, start_idx)
CallGreedy ==
    /\ pc = "idle"
    /\ main_pc = "none"
    /\ \E n \in (0 .. MaxN) \cup {GoldenN} :
       \E M \in (IF n <= MaxN THEN SimilarityMatrices(n) ELSE {})
                \cup (IF n = GoldenN THEN {GoldenMatrix} ELSE {}) :
       \E s \in StartArgs(n) :
          /\ entry' = "greedy_nearest_neighbor"
          /\ n_frames' = n
          /\ similarity_matrix' = M
          /\ start_idx' = s
          /\ runs' = 1
          /\ GreedyEnter(M, n, s)
    /\ UNCHANGED <<folder_exists, readable, method, use_multiprocessing, scores,
                   pool_size, pairs, done, pair_calls, metric_calls, cell_writes,
                   ordered_frame_paths, prev, mainvars, metricvars>>

\* the caller invokes it again with the same arguments
CallGreedyAgain ==
    /\ entry = "greedy_nearest_neighbor"
    /\ pc \in {"returned", "raised"}
    /\ runs < MaxRuns
    /\ runs' = runs + 1
    /\ prev' = << [outcome |-> pc, sequence |-> sequence, error |-> error] >>
    /\ GreedyEnter(similarity_matrix, n_frames, start_idx)
    /\ UNCHANGED <<inputs, build, ordered_frame_paths, mainvars, metricvars>>

\* frame sets of reconstruct_sequence: (n, readable, method, scores, start)
\* the frame counts 0..MaxN in full, the five frames with an unreadable one
\* under every method and score table, the counts at the threshold with all
\* frames readable and the default start
FrameCounts ==
    (0 .. MaxN) \cup {UnreadableFrameN} \cup BoundaryNs

MethodsFor(n) ==
    IF n <= MaxN \/ n = UnreadableFrameN THEN Methods
    ELSE {"combined", "opticalflow"}

ReadableFor(n) ==
    IF n <= MaxN THEN [Range(n) -> BOOLEAN]
    ELSE IF n = UnreadableFrameN THEN {UnreadableFrameReadable}
    ELSE {[i \in Range(n) |-> TRUE]}

StartArgsFor(n) ==
    IF n <= MaxN THEN StartArgs(n)
    ELSE IF n = UnreadableFrameN THEN {None, Some(2)}
    ELSE {None}

\* reconstruct_sequence up to the first pair: the two input checks, then
\* compute_similarity_matrix's set-up (zero matrix, diagonal, pair list) and
\* its choice between the pool and the sequential loop
EnterReconstruct(ex, n, rd, m, mp, s, sc, w) ==
    /\ entry' = "reconstruct_sequence"
    /\ folder_exists' = ex
    /\ n_frames' = n
    /\ readable' = rd
    /\ method' = m
    /\ use_multiprocessing' = mp
    /\ start_idx' = s
    /\ scores' = sc
    /\ IF ~ex
       THEN /\ pc' = "raised"
            /\ error' = "FileNotFoundError"
            /\ UNCHANGED <<similarity_matrix, pairs, pool_size, cell_writes>>
       ELSE IF n = 0
       THEN /\ pc' = "raised"
            /\ error' = "ValueError"
            /\ UNCHANGED <<similarity_matrix, pairs, pool_size, cell_writes>>
       ELSE /\ similarity_matrix' = InitialMatrix(n)
            /\ cell_writes' = [c \in Range(n) \X Range(n) |-> 0]
            /\ pairs' = Pairs(n)
            /\ pool_size' = w
            /\ pc' = IF UsesPool(mp, TotalComparisons(n))
                     THEN "par_build" ELSE "seq_build"
            /\ error' = "none"
    /\ UNCHANGED <<done, pair_calls, metric_calls, walk, ordered_frame_paths, history>>

\* the sizes a pool can have on this input (0: the sequential loop)
PoolSizes(mp, n) ==
    IF UsesPool(mp, TotalComparisons(n)) THEN 1 .. MaxWorkers ELSE {0}

\* a caller invokes reconstruct_sequence(frames_folder, method,
\* use_multiprocessing, start_idx)
CallReconstruct ==
    /\ pc = "idle"
    /\ main_pc = "none"
    /\ \E ex \in BOOLEAN :
       \E n \in (IF ex THEN FrameCounts ELSE {0}) :
       \E rd \in ReadableFor(n) :
       \E m \in MethodsFor(n) :
       \E mp \in BOOLEAN :
       \E s \in StartArgsFor(n) :
       \E sc \in ScoreTables(n, m, rd) :
       \E w \in PoolSizes(mp, n) :
          EnterReconstruct(ex, n, rd, m, mp, s, sc, w)
    /\ UNCHANGED <<mainvars, metricvars>>

\* variant: the loop over the results ends with one result outstanding
BuildComplete_OneShort(d, total) ==
    Cardinality(d) >= total - 1

\* both loops of compute_similarity_matrix end when every pair of the list
\* has been handled (the with block also waits for every future)
BuildComplete(d, total) ==
    Cardinality(d) = total

\* compute_similarity_matrix returns the matrix (all pairs handled) and
\* reconstruct_sequence passes it to greedy_nearest_neighbor with start_idx
StartWalk ==
    /\ pc \in {"seq_build", "par_build"}
    /\ BuildComplete(done, Len(pairs))
    /\ runs' = 1
    /\ GreedyEnter(similarity_matrix, n_frames, start_idx)
    /\ UNCHANGED <<inputs, build, ordered_frame_paths, prev, mainvars, metricvars>>

(***************************************************************************)
(* A metric called on two frames.                                          *)
(***************************************************************************)
\* frame_similarity(frame1, frame2, method) with a method of the dispatch, or
\* optical_flow_similarity(frame1, frame2): the score is computed for the
\* negative MSE, the other metrics' values are not modelled
CallMetric ==
    /\ pc = "idle"
    /\ main_pc = "none"
    /\ \E m \in MetricFunctions :
       \E a \in AllFrames :
       \E b \in AllFrames :
          /\ entry' = "metric"
          /\ method' = m
          /\ frame1' = Some(a)
          /\ frame2' = Some(b)
          /\ pc' = IF MetricRaises(m, a, b) THEN "metric_raised" ELSE "metric_returned"
          /\ error' = IF MetricRaises(m, a, b) THEN "cv2.error" ELSE "none"
          /\ comparison' =
                Some([metric   |-> m,
                      outcome  |-> IF MetricRaises(m, a, b) THEN "cv2.error" ELSE "score",
                      operands |-> Operands(m, a, b),
                      score    |-> IF m = "mse"
                                   THEN Some(ComputeMse(a, MatchShape(a, b)))
                                   ELSE None])
    /\ UNCHANGED <<n_frames, folder_exists, readable, use_multiprocessing, start_idx,
                   scores, pool_size, build, walk, ordered_frame_paths, history,
                   mainvars>>

(***************************************************************************)
(* compare_all_pairs of optical_flow_similarity.py.  It shares the names   *)
(* n_frames and similarity_matrix with the builder above; `pairs` is the   *)
(* list of (i, j) its two nested loops run through, `done` the iterations   *)
(* finished, `scores` what optical_flow_similarity returns for each        *)
(* ordered pair of the frames (all of one shape).                          *)
(***************************************************************************)
\* similarity_matrix[i, j] = 1.0  # Frame is identical to itself
FlowDiagonal ==
    10

\* scores optical_flow_similarity can return (sampled, tenths): the weighted
\* sum 0.7 * exp(-magnitude / 10) + 0.3 * exp(-angle_std) lies in (0, 1]
FlowScores ==
    {2, 9}

\* for i in range(n_frames): for j in range(n_frames), row i
FlowRow(i, n) ==
    [k \in 1 .. n |-> <<i, k - 1>>]

RECURSIVE FlowCellsFrom(_, _)
FlowCellsFrom(i, n) ==
    IF i >= n THEN << >> ELSE FlowRow(i, n) \o FlowCellsFrom(i + 1, n)

\* the pairs whose score is computed: every ordered pair of two frames
OrderedPairs(n) ==
    {p \in Range(n) \X Range(n) : p[1] # p[2]}

\* the body of the inner loop: 1.0 on the diagonal, else
\* optical_flow_similarity(frames[i], frames[j])
FlowCellValue(c) ==
    IF c[1] = c[2] THEN FlowDiagonal ELSE scores[c]

\* a caller invokes compare_all_pairs(frames)
CallCompareAllPairs ==
    /\ pc = "idle"
    /\ main_pc = "none"
    /\ \E n \in 0 .. MaxN :
       \E sc \in [OrderedPairs(n) -> FlowScores] :
          /\ entry' = "compare_all_pairs"
          /\ n_frames' = n
          /\ scores' = sc
          /\ similarity_matrix' = [c \in Range(n) \X Range(n) |-> ZeroCell]
          /\ pairs' = FlowCellsFrom(0, n)
    /\ pc' = "flow_build"
    /\ UNCHANGED <<folder_exists, readable, method, use_multiprocessing, start_idx,
                   pool_size, done, pair_calls, metric_calls, cell_writes, walk,
                   error, ordered_frame_paths, history, mainvars, metricvars>>

\* one iteration of the inner loop
FlowCell ==
    /\ pc = "flow_build"
    /\ Cardinality(done) < Len(pairs)
    /\ LET k == Cardinality(done) + 1 IN
       /\ similarity_matrix' = [similarity_matrix EXCEPT ![pairs[k]] = FlowCellValue(pairs[k])]
       /\ metric_calls' = IF pairs[k][1] = pairs[k][2]
                          THEN metric_calls ELSE metric_calls + 1
       /\ done' = done \cup {k}
    /\ UNCHANGED <<pc, inputs, pairs, pair_calls, cell_writes, walk, error,
                   ordered_frame_paths, history, mainvars, metricvars>>

\* return similarity_matrix
FlowReturn ==
    /\ pc = "flow_build"
    /\ Cardinality(done) = Len(pairs)
    /\ pc' = "flow_returned"
    /\ UNCHANGED <<inputs, build, walk, error, ordered_frame_paths, history,
                   mainvars, metricvars>>

(***************************************************************************)
(* main.py: the command-line pipeline around reconstruct_sequence.          *)
(***************************************************************************)
\* --method: choices=['opticalflow']
CommandLineMethods ==
    {"opticalflow"}

\* extract_frames returns (frame_count, width, height)
ExtractFramesReturns ==
    3

\* frame_count, dimensions = extract_frames(args.input, args.frames_dir)
ExtractionTargets ==
    2

\* Frame extraction is entered unless --skip-extraction was given and holds:
\* with the flag and an existing frames folder the flag is withdrawn when the
\* folder has no frames
RunsExtraction(skip, ex, n) ==
    ~skip \/ (ex /\ n = 0)

\* the try block around extract_frames ends in sys.exit(1) when the call
\* raises, and also when its result cannot be unpacked into the targets
ExtractionFails(raised) ==
    raised \/ ExtractFramesReturns # ExtractionTargets

\* main() from its start to the call of reconstruct_sequence: the input
\* check, the extraction stage and the call with the command line's method
CallMain ==
    /\ pc = "idle"
    /\ main_pc = "none"
    /\ \E input_exists \in BOOLEAN :
       \E skip \in BOOLEAN :
       \E raised \in BOOLEAN :
       \E ex \in BOOLEAN :
       \E n \in (IF ex THEN FrameCounts ELSE {0}) :
       \E rd \in ReadableFor(n) :
       \E m \in CommandLineMethods :
       \E sc \in ScoreTables(n, m, rd) :
       \E w \in PoolSizes(TRUE, n) :
       \E save_raises \in BOOLEAN :
       \E writer_ok \in BOOLEAN :
          /\ run_env' = Some([input_exists   |-> input_exists,
                              skip_extraction |-> skip,
                              extract_raises |-> raised,
                              save_raises    |-> save_raises,
                              writer_ok      |-> writer_ok])
          /\ IF ~input_exists
             THEN /\ main_pc' = "exited"
                  /\ stages' = << >>
                  /\ exit_status' = Some(1)
                  /\ UNCHANGED <<pc, inputs, build, walk, error,
                                 ordered_frame_paths, history>>
             ELSE IF RunsExtraction(skip, ex, n) /\ ExtractionFails(raised)
             THEN /\ main_pc' = "exited"
                  /\ stages' = << "extraction" >>
                  /\ exit_status' = Some(1)
                  /\ UNCHANGED <<pc, inputs, build, walk, error,
                                 ordered_frame_paths, history>>
             ELSE /\ main_pc' = "reconstruction"
                  /\ stages' = IF RunsExtraction(skip, ex, n)
                               THEN << "extraction", "reconstruction" >>
                               ELSE << "reconstruction" >>
                  /\ exit_status' = None
                  /\ EnterReconstruct(ex, n, rd, m, TRUE, None, sc, w)
    /\ UNCHANGED <<validator_arg, validation, metricvars>>

\* except Exception around the reconstruction stage: sys.exit(1)
MainReconstructionFailed ==
    /\ main_pc = "reconstruction"
    /\ pc = "raised"
    /\ main_pc' = "exited"
    /\ exit_status' = Some(1)
    /\ UNCHANGED <<pc, inputs, build, walk, error, ordered_frame_paths, history,
                   stages, validator_arg, validation, run_env, metricvars>>

\* return ordered_frame_paths, similarity_matrix
ReturnValue ==
    [type |-> "tuple", items |-> <<ordered_frame_paths, similarity_matrix>>]

\* validate_reconstruction: true exactly when the value is a list of length
\* n that holds every index 0..n-1 once
ValidateReconstruction(value, n) ==
    /\ value.type = "list"
    /\ Len(value.items) = n
    /\ \A i \in Range(n) :
          Cardinality({k \in 1 .. Len(value.items) : value.items[k] = i}) = 1

\* ordered_frames = reconstruct_sequence(...) has returned: the rest of the
\* try block, validate_reconstruction(ordered_frames), whose result is only
\* reported, and save_reconstruction_order(ordered_frames, order_file); an
\* exception of either is caught by the block's except: sys.exit(1)
MainValidate ==
    /\ main_pc = "reconstruction"
    /\ pc = "returned"
    /\ stages' = Append(stages, "validation")
    /\ validator_arg' = Some(ReturnValue)
    /\ validation' = Some(ValidateReconstruction(ReturnValue, Len(ReturnValue.items)))
    /\ IF run_env[1].save_raises
       THEN /\ main_pc' = "exited"
            /\ exit_status' = Some(1)
       ELSE /\ main_pc' = "validated"
            /\ UNCHANGED exit_status
    /\ UNCHANGED <<pc, inputs, build, walk, error, ordered_frame_paths, history,
                   run_env, metricvars>>

\* what cv2.imread is handed for each item of the value: a path when the
\* value is the list of paths, and the list of paths and the matrix
\* themselves when it is reconstruct_sequence's 2-tuple
ItemKinds(value) ==
    IF value.type = "list" THEN [k \in 1 .. Len(value.items) |-> "path"]
    ELSE << "list", "ndarray" >>

\* create_video(ordered_frames, ...) does not return True: the list is empty
\* (ValueError), cv2.imread(ordered_frames[0]) is handed something that is
\* not a path (TypeError) or cannot read the first frame (ValueError), or
\* the writer cannot be opened or leaves no file
CreateVideoFails(value, rd, writer_ok) ==
    \/ Len(value.items) = 0
    \/ ItemKinds(value)[1] # "path"
    \/ ~rd[value.items[1]]
    \/ ~writer_ok

\* the video stage: success = create_video(ordered_frames, ...); an
\* exception or a false result ends the run with sys.exit(1)
MainCreateVideo ==
    /\ main_pc = "validated"
    /\ stages' = Append(stages, "video")
    /\ IF CreateVideoFails(ReturnValue, readable, run_env[1].writer_ok)
       THEN /\ main_pc' = "exited"
            /\ exit_status' = Some(1)
       ELSE /\ main_pc' = "video_done"
            /\ UNCHANGED exit_status
    /\ UNCHANGED <<pc, inputs, build, walk, error, ordered_frame_paths, history,
                   validator_arg, validation, run_env, metricvars>>

Next ==
    \/ CallGreedy
    \/ CallGreedyAgain
    \/ CallReconstruct
    \/ SeqPair
    \/ ParPair
    \/ StartWalk
    \/ GreedyStep
    \/ GreedyReturn
    \/ CallMain
    \/ MainReconstructionFailed
    \/ MainValidate
    \/ MainCreateVideo
    \/ CallMetric
    \/ CallCompareAllPairs
    \/ FlowCell
    \/ FlowReturn

Spec ==
    Init /\ [][Next]_vars

(***************************************************************************)
(* Vocabulary of the properties.                                           *)
(***************************************************************************)
\* length n and every index 0..n-1 exactly once
IsPermutation(seq, n) ==
    /\ Len(seq) = n
    /\ \A i \in Range(n) : Cardinality({k \in 1 .. Len(seq) : seq[k] = i}) = 1

\* the start is left to the function or is the index of a frame
ValidStart ==
    start_idx = None \/ start_idx[1] \in Range(n_frames)

DirectCall ==
    entry = "greedy_nearest_neighbor"

PipelineCall ==
    entry = "reconstruct_sequence"

\* a loop iteration of the walk has just appended an index
Selects ==
    pc = "walk" /\ Len(sequence') = Len(sequence) + 1

Selected ==
    sequence'[Len(sequence')]

Unvisited ==
    {j \in Range(n_frames) : ~used[j]}

\* score of j in the current index's row of the matrix
RowScore(j) ==
    similarity_matrix[<<PyIndex(current_idx, n_frames), j>>]

\* the unvisited indices whose score is the maximum over the unvisited ones
BestUnvisited ==
    {j \in Unvisited : \A k \in Unvisited : RowScore(k) <= RowScore(j)}

SetMin(S) ==
    CHOOSE x \in S : \A y \in S : x <= y

Symmetric(M, n) ==
    \A i, j \in Range(n) : M[<<i, j>>] = M[<<j, i>>]

(***************************************************************************)
(* Claims.                                                                 *)
(***************************************************************************)
\* C1: for every N >= 1 and every N x N similarity matrix the sequence
\* greedy_nearest_neighbor returns has length N and holds every index
\* 0..N-1 exactly once.
C1_Permutation ==
    (pc = "returned" /\ DirectCall /\ n_frames >= 1 /\ ValidStart)
        => IsPermutation(sequence, n_frames)

\* C2: the walk stops after exactly N-1 selection steps, and only in the
\* state where all N indices are visited.
C2_StopsWhenAllVisited ==
    (pc = "returned" /\ n_frames >= 1 /\ ValidStart)
        => /\ steps = n_frames - 1
           /\ \A i \in Range(n_frames) : used[i]

\* C3: at every selection step the index appended is unvisited and its score
\* in the current row is at least the score of every other unvisited index.
C3_SelectsBestUnvisited ==
    [][(Selects /\ ValidStart) => Selected \in BestUnvisited]_vars

\* C4: when several unvisited indices share the maximum score of the current
\* row, the walk selects the one with the lowest index.
C4_LowestIndexTieBreak ==
    [][(Selects /\ ValidStart /\ Cardinality(BestUnvisited) >= 2)
          => Selected = SetMin(BestUnvisited)]_vars

\* C5: on the golden matrix with start index 0 the walk returns [0,1,2,3]
\* (row 0 -> 1, row 1 -> 2 with .3 over .1, row 2 -> 3).
C5_GoldenSequence ==
    (pc = "returned" /\ DirectCall /\ n_frames = GoldenN
        /\ similarity_matrix = GoldenMatrix /\ start_idx = Some(0))
        => sequence = <<0, 1, 2, 3>>

C5_Witness ==
    /\ pc = "returned" /\ DirectCall /\ n_frames = GoldenN
    /\ similarity_matrix = GoldenMatrix /\ start_idx = Some(0)
    /\ steps = GoldenN - 1

\* C6 as stated: with no start index supplied the first element of the
\* sequence is 0 on every run.
C6_DefaultStartIsZero ==
    (pc \in {"walk", "returned"} /\ start_idx = None) => sequence[1] = 0

\* C6 as amended: with no start index supplied and N >= 1 the walk starts at
\* some index of 0..N-1, drawn by np.random.randint(0, N), and does not raise.
C6_DefaultStartIsSomeIndex ==
    (start_idx = None /\ n_frames >= 1 /\ runs >= 1)
        => /\ pc \in {"walk", "returned"}
           /\ sequence[1] \in Range(n_frames)

C6_Witness ==
    /\ pc = "returned" /\ PipelineCall /\ start_idx = None
    /\ sequence[1] # 0

\* C7: two runs of the greedy reconstructor on the same matrix with the same
\* fixed start index end the same way and return the same sequence.
C7_Deterministic ==
    (DirectCall /\ prev # << >> /\ start_idx # None /\ pc \in {"returned", "raised"})
        => /\ prev[1].outcome = pc
           /\ prev[1].error = error
           /\ prev[1].sequence = sequence

C7_Witness ==
    /\ DirectCall /\ prev # << >> /\ start_idx # None /\ pc = "returned"
    /\ n_frames >= 3
    /\ prev[1].sequence = sequence

\* C8: with zero frames reconstruct_sequence raises, and so does
\* greedy_nearest_neighbor on a 0 x 0 matrix with or without a start index;
\* no sequence is returned.
C8_ZeroFramesRaise ==
    (n_frames = 0 /\ (DirectCall \/ (PipelineCall /\ folder_exists)))
        => /\ pc = "raised"
           /\ error \in {"ValueError", "IndexError"}
           /\ ordered_frame_paths = << >>

C8_Witness ==
    /\ DirectCall /\ n_frames = 0 /\ start_idx # None
    /\ pc = "raised" /\ error = "IndexError"

\* C9: for N = 1 the reconstruction returns [0] after zero pair computations
\* and zero selection steps, with the start index omitted or supplied.
C9_SingleFrame ==
    (n_frames = 1 /\ ValidStart /\ runs >= 1)
        => /\ pc \in {"walk", "returned"}
           /\ sequence = <<0>>
           /\ steps = 0
           /\ pair_calls = 0
           /\ metric_calls = 0
           /\ (pc = "returned" /\ PipelineCall) => ordered_frame_paths = <<0>>

C9_Witness ==
    /\ PipelineCall /\ n_frames = 1 /\ start_idx = Some(0)
    /\ pc = "returned" /\ sequence = <<0>> /\ pair_calls = 0

\* C10: the matrix compute_similarity_matrix returns is symmetric, on the
\* sequential and on the parallel path, whatever the completion order.
C10_Symmetric ==
    (PipelineCall /\ runs >= 1) => Symmetric(similarity_matrix, n_frames)

C10_Witness ==
    /\ PipelineCall /\ runs >= 1 /\ pool_size = MaxWorkers
    /\ similarity_matrix[<<0, 1>>] # ZeroCell
    /\ Symmetric(similarity_matrix, n_frames)

\* C11: every diagonal entry M[i][i] of the matrix the builder returns equals
\* the maximum of the selected metric, the score of a frame with itself, for
\* every selectable metric (0 for the negative MSE).
C11_DiagonalIsMetricMaximum ==
    (PipelineCall /\ runs >= 1 /\ method \in KnownMethods)
        => \A i \in Range(n_frames) :
              similarity_matrix[<<i, i>>] = MetricMaximum(method)

\* C12 as stated: a build that returns has evaluated the metric exactly
\* N(N-1)/2 times, once per unordered pair i < j, and every off-diagonal cell
\* was filled from exactly one of these evaluations.
C12_MetricEvaluatedPerPair ==
    (PipelineCall /\ runs >= 1)
        => /\ metric_calls = NPairs(n_frames)
           /\ \A c \in DOMAIN cell_writes :
                 cell_writes[c] = (IF c[1] = c[2] THEN 0 ELSE 1)

\* C12 as amended: a build that returns has called compute_similarity_pair
\* exactly N(N-1)/2 times, once per unordered pair i < j (never i = j, never
\* both orders), and every off-diagonal cell was assigned exactly once; the
\* metric itself was evaluated once for each pair whose two frames load and
\* not at all for a pair with an unreadable frame.
C12_PairComputedOnce ==
    /\ (pc \in {"seq_build", "par_build"}) => pair_calls = Cardinality(done)
    /\ (PipelineCall /\ runs >= 1)
         => /\ pair_calls = NPairs(n_frames)
            /\ Len(pairs) = NPairs(n_frames)
            /\ \A k \in 1 .. Len(pairs) : pairs[k][1] < pairs[k][2]
            /\ \A c \in DOMAIN cell_writes :
                  cell_writes[c] = (IF c[1] = c[2] THEN 0 ELSE 1)
            /\ metric_calls = Cardinality(ReadablePairs(n_frames, readable))

C12_Witness ==
    /\ PipelineCall /\ runs >= 1 /\ n_frames = 3
    /\ pair_calls = 3 /\ metric_calls = 1
    /\ \A c \in DOMAIN cell_writes : c[1] # c[2] => cell_writes[c] = 1

\* the finished pairs among those the pool started last
LatestDone ==
    {k \in Cardinality(done) .. Min(Len(pairs), Cardinality(done) + pool_size - 1) :
        k >= 1 /\ k \in done}

\* the two cells of pair k have been written once and hold its result
WrittenOnce(k) ==
    /\ cell_writes[pairs[k]] = 1
    /\ cell_writes[<<pairs[k][2], pairs[k][1]>>] = 1
    /\ similarity_matrix[pairs[k]] = PairSimilarity(pairs[k])
    /\ similarity_matrix[<<pairs[k][2], pairs[k][1]>>] = PairSimilarity(pairs[k])

\* C13: in the parallel build the unit of work for pair (i, j) writes the
\* cells [i][j] and [j][i] and no other cell, and no cell is written by two
\* units.  Writes are only ever counted up, so it is enough that during the
\* build the cells of the pairs finished last have been written once and
\* hold their pair's result, and that in the finished matrix every pair's
\* cells hold its result, every off-diagonal cell has been written exactly
\* once and no diagonal cell at all.
C13_DisjointCellWrites ==
    (PipelineCall /\ pool_size > 0 /\ pc # "idle")
        => /\ \A k \in LatestDone : WrittenOnce(k)
           /\ runs >= 1 =>
                 /\ \A k \in 1 .. Len(pairs) : WrittenOnce(k)
                 /\ \A c \in DOMAIN cell_writes :
                       cell_writes[c] = (IF c[1] = c[2] THEN 0 ELSE 1)

\* a result written while an earlier-submitted pair is still outstanding
C13_Witness ==
    /\ pc = "par_build" /\ pool_size = MaxWorkers
    /\ \E k \in done : k > 1 /\ (k - 1) \notin done
                       /\ cell_writes[pairs[k]] = 1
                       /\ cell_writes[<<pairs[k][2], pairs[k][1]>>] = 1

\* C14: for the same frames and metric the parallel path returns (the state
\* in which the walk is entered, before its first step), in every
\* completion order of its futures, the matrix the sequential loop returns,
\* cell for cell; and the first results the parallel build writes, in
\* whatever order they arrive, already are the values the sequential loop
\* gives those cells.
C14_ParallelEqualsSequential ==
    /\ (PipelineCall /\ runs >= 1 /\ steps = 0)
         => similarity_matrix = SequentialMatrix
    /\ (pc = "par_build" /\ Cardinality(done) <= pool_size)
         => \A k \in done :
               /\ similarity_matrix[pairs[k]] = SequentialCell(pairs[k])
               /\ similarity_matrix[<<pairs[k][2], pairs[k][1]>>]
                     = SequentialCell(<<pairs[k][2], pairs[k][1]>>)

C14_Witness ==
    /\ PipelineCall /\ runs >= 1 /\ steps = 0 /\ use_multiprocessing
    /\ pool_size = MaxWorkers
    /\ similarity_matrix[<<0, 1>>] # similarity_matrix[<<0, 2>>]
    /\ similarity_matrix = SequentialMatrix

\* C15: the similarity recorded for a pair with an unreadable frame is the
\* minimum of the metric: it is at most the score of every pair of readable
\* frames in the same matrix, so the walk never prefers an unreadable frame
\* to a readable unvisited one.
C15_UnreadableScoreIsMinimum ==
    (PipelineCall /\ runs >= 1 /\ method \in KnownMethods)
        => \A p \in UpperPairs(n_frames) \ ReadablePairs(n_frames, readable) :
           \A q \in ReadablePairs(n_frames, readable) :
              similarity_matrix[p] <= similarity_matrix[q]

\* C16: on five frames of which frame 2 cannot be loaded, the matrix build
\* and the walk do not raise, and the returned sequence is a permutation of
\* 0..4, index 2 included.
C16_UnreadableFrameKept ==
    (PipelineCall /\ folder_exists /\ n_frames = UnreadableFrameN
        /\ readable = UnreadableFrameReadable /\ method \in KnownMethods)
        => /\ pc # "raised"
           /\ error = "none"
           /\ pc = "returned"
                => /\ IsPermutation(sequence, n_frames)
                   /\ IsPermutation(ordered_frame_paths, n_frames)
                   /\ \E k \in 1 .. Len(sequence) : sequence[k] = 2

C16_Witness ==
    /\ PipelineCall /\ n_frames = UnreadableFrameN
    /\ readable = UnreadableFrameReadable /\ method = "combined"
    /\ pc = "returned" /\ pair_calls = NPairs(n_frames)
    /\ metric_calls = NPairs(n_frames - 1)
    /\ IsPermutation(sequence, n_frames)
    /\ start_idx = None /\ sequence[n_frames] = 2

\* C17: the validator returns true exactly when the sequence has length N and
\* holds every index 0..N-1 once, false otherwise, and leaves the sequence
\* unchanged; the pipeline applies it to the index sequence the
\* reconstructor produced.
C17_ValidatorSeesIndexSequence ==
    main_pc = "validated"
        => /\ validator_arg[1].type = "list"
           /\ validator_arg[1].items = sequence
           /\ validation[1] = IsPermutation(sequence, n_frames)

\* C18: the greedy walk never writes to the similarity matrix: every step
\* taken while the walk runs (a loop iteration or the return) leaves every
\* cell as it was, the masking being done on a copy of the row.
C18_WalkLeavesMatrix ==
    [][pc = "walk" => similarity_matrix' = similarity_matrix]_vars

C18_Witness ==
    /\ pc = "returned" /\ DirectCall /\ n_frames = 3 /\ steps = 2
    /\ similarity_matrix[<<0, 1>>] = 3
    /\ similarity_matrix[<<1, 2>>] = DiagonalValue
    /\ \A i \in Range(n_frames) : used[i]

\* C19: in reconstruct_sequence the walk starts, and so its first selection
\* step happens, only after all N(N-1)/2 pair results have been written to
\* the matrix, and once the walk has started no cell is written any more.
C19_WalkAfterBuild ==
    /\ []((PipelineCall /\ runs >= 1)
            => /\ Cardinality(done) = NPairs(n_frames)
               /\ pair_calls = NPairs(n_frames))
    /\ [][(PipelineCall /\ runs >= 1)
            => /\ done' = done
               /\ cell_writes' = cell_writes
               /\ similarity_matrix' = similarity_matrix]_vars

C19_Witness ==
    /\ PipelineCall /\ pc = "walk" /\ steps = 1
    /\ pool_size = MaxWorkers
    /\ Cardinality(done) = NPairs(n_frames)
    /\ Len(sequence) = 2

\* C20: every metric of the selector, the optical-flow method included, is
\* accepted by the dispatch of frame_similarity: no matrix build on one or
\* more frames ends in the unknown-method ValueError, in particular not the
\* build of a run started with the method the command line offers.
C20_SelectorMethodsAccepted ==
    (PipelineCall /\ folder_exists /\ n_frames >= 1 /\ method \in Methods)
        => ~(pc = "raised" /\ error = "ValueError")

\* C21: for every supported metric, the optical-flow metric included, a
\* comparison of two frames of different dimensions is not an error: the
\* second frame is resampled to the first frame's dimensions before the
\* metric is evaluated, and a score is returned.
C21_DifferentShapesCompared ==
    (comparison # None /\ Shape(frame1[1]) # Shape(frame2[1]))
        => /\ comparison[1].outcome = "score"
           /\ \A o \in comparison[1].operands : Shape(o[2]) = Shape(frame1[1])

\* C22: the matrix compare_all_pairs returns is symmetric, M[i][j] = M[j][i]
\* for all i, j, whatever optical_flow_similarity returns for (frame i,
\* frame j) and for (frame j, frame i), and its diagonal is 1.0.
C22_FlowMatrixSymmetric ==
    (entry = "compare_all_pairs" /\ pc = "flow_returned")
        => /\ Symmetric(similarity_matrix, n_frames)
           /\ \A i \in Range(n_frames) : similarity_matrix[<<i, i>>] = FlowDiagonal

\* (i, j) comes before (k, l) in the order of the two nested loops
LexBefore(p, q) ==
    p[1] < q[1] \/ (p[1] = q[1] /\ p[2] < q[2])

\* C23: compute_similarity_matrix hands the pairs to the worker pool if and
\* only if use_multiprocessing is true and N(N-1)/2 is strictly greater than
\* 100; with 100 or fewer pairs (every N <= 14) or use_multiprocessing false
\* all pairs are computed by the sequential loop, in ascending (i, j) order:
\* the pairs finished are an initial piece of the list, and the pair finished
\* last comes before the next one.
C23_PoolIffFlagAndOver100 ==
    (PipelineCall /\ pc \in {"seq_build", "par_build"})
        => /\ (pc = "par_build")
                 <=> (use_multiprocessing /\ NPairs(n_frames) > 100)
           /\ (pool_size > 0) <=> (pc = "par_build")
           /\ n_frames <= 14 => pc = "seq_build"
           /\ pc = "seq_build"
                => /\ done = 1 .. Cardinality(done)
                   /\ pair_calls = Cardinality(done)
                   /\ \A k \in {Cardinality(done)} \cap (1 .. (Len(pairs) - 1)) :
                         LexBefore(pairs[k], pairs[k + 1])

\* 14 frames, 91 pairs, multiprocessing asked for: the sequential loop ran
C23_Witness ==
    /\ PipelineCall /\ pc = "seq_build" /\ use_multiprocessing
    /\ n_frames = 14 /\ Cardinality(done) = 91 /\ pair_calls = 91

\* C24: the sequence grows by exactly one index per step of the walk and is
\* prefix-stable: after k steps it has k + 1 elements, a step keeps all the
\* elements it found and appends one, and once the length has reached N no
\* element is appended or changed during the call.
C24_PrefixStable ==
    /\ [](pc = "walk" => /\ Len(sequence) = steps + 1
                          /\ Len(sequence) <= n_frames)
    /\ [][(runs >= 1 /\ runs' = runs)
            => /\ steps' # steps
                    => /\ steps' = steps + 1
                       /\ Len(sequence') = Len(sequence) + 1
                       /\ SubSeq(sequence', 1, Len(sequence)) = sequence
               /\ steps' = steps => sequence' = sequence
               /\ Len(sequence) >= n_frames => sequence' = sequence]_vars

C24_Witness ==
    /\ PipelineCall /\ pc = "returned" /\ n_frames = 3
    /\ steps = 2 /\ Len(sequence) = 3
    /\ sequence[1] # sequence[2]

\* how often index i occurs in seq
Occurrences(seq, i) ==
    Cardinality({k \in 1 .. Len(seq) : seq[k] = i})

\* C25: in every state of the greedy walk the visited flags and the sequence
\* agree: used[i] is true if and only if i occurs in the sequence, the
\* number of true flags equals the length of the sequence, and the current
\* index is the last element of the sequence.
C25_UsedMatchesSequence ==
    (pc \in {"walk", "returned"} /\ runs >= 1 /\ ValidStart)
        => /\ \A i \in Range(n_frames) : used[i] <=> Occurrences(sequence, i) >= 1
           /\ Cardinality({i \in Range(n_frames) : used[i]}) = Len(sequence)
           /\ current_idx = sequence[Len(sequence)]

\* C26: for every caller-supplied start index s with 0 <= s < N the first
\* element of the sequence greedy_nearest_neighbor returns is s, and s
\* appears nowhere else in the sequence.
C26_StartFirstAndOnce ==
    (pc = "returned" /\ runs >= 1 /\ start_idx # None /\ ValidStart)
        => /\ sequence[1] = start_idx[1]
           /\ Occurrences(sequence, start_idx[1]) = 1

\* C27: for every integer start index, negative values and values >= N
\* included, greedy_nearest_neighbor either raises or returns a permutation
\* of 0..N-1: a returned sequence holds no value outside 0..N-1 and omits
\* no index.
C27_AnyStartRaisesOrPermutes ==
    (DirectCall /\ start_idx # None /\ pc = "returned")
        => /\ \A k \in 1 .. Len(sequence) : sequence[k] \in Range(n_frames)
           /\ \A i \in Range(n_frames) : Occurrences(sequence, i) >= 1

\* C28: the greedy walk never selects a visited index again, also when
\* scores of unvisited entries of the current row equal the mask value -inf:
\* the index the first-maximum scan chooses is unvisited at every step.
C28_NeverReselectsVisited ==
    [][(Selects /\ ValidStart) => ~used[Selected]]_vars

\* C29: with a metric name the dispatch does not know, frame_similarity
\* raises ValueError, the matrix build is aborted by it on the first pair
\* evaluated and neither matrix nor sequence is returned; this happens for
\* every N >= 1, N = 1 (no pair to evaluate) included, so an unknown metric
\* is never accepted silently: such a run never enters the walk.
C29_UnknownMetricRaises ==
    (PipelineCall /\ folder_exists /\ n_frames >= 1 /\ method \notin KnownMethods)
        => /\ pc \in {"seq_build", "par_build", "raised"}
           /\ pc = "raised" => (error = "ValueError" /\ metric_calls = 1)
           /\ pc # "raised" => metric_calls = 0
           /\ ordered_frame_paths = << >>

\* the stages of main.py in their fixed order
StageOrder ==
    << "extraction", "reconstruction", "validation", "video", "visualization", "heatmap" >>

StageRank(s) ==
    CHOOSE k \in 1 .. Len(StageOrder) : StageOrder[k] = s

\* the stage in which the run ended (stages is not empty)
LastStage ==
    stages[Len(stages)]

====
